---- MODULE Spec2Model ----
(***************************************************************************)
(* A model of BloomFilterHW.py: one BloomFilter object, from its           *)
(* construction through any sequence of insert, find, falsePositiveRate,   *)
(* numBitsSet and len calls.                                               *)
(*                                                                         *)
(* Real numbers are exact rationals here: maxFalsePositive is a pair       *)
(* <<numerator, denominator>>, and the floor taken by int() in             *)
(* __bitsNeeded is found by exact integer comparison.  The values agree    *)
(* with CPython's floating point results on every configuration drawn      *)
(* below.  A raised Python exception is recorded by its name.              *)
(***************************************************************************)
EXTENDS Integers, FiniteSets

\* ------------------------------------------------------------- bounds

\* Keys are 1..MaxKey.
MaxKey == 2
\* BitHash(key, seed) ranges over 0..HashRange-1.
HashRange == 2
\* Ceiling of the search for the floor in __bitsNeeded (never binding).
MaxBits == 16

Keys == 1..MaxKey
\* The constructor's arguments are drawn from these sets.
NumKeysChoices == {0, 1, 2}
NumHashesChoices == {0, 1, 2}
PChoices == {<<0, 1>>, <<1, 4>>, <<1, 2>>, <<1, 1>>, <<2, 1>>}

NoExc == "none"

VARIABLES
    phase,        \* "new" | "operational" (__init__ returned) | "failed" (__init__ raised)
    n,            \* self.__n
    d,            \* self.__d
    p,            \* self.__p, <<numerator, denominator>>
    N,            \* self.__N
    bloomFilter,  \* self.__bloomFilter: 0..N-1 -> {0, 1}
    setBits,      \* self.__setBits
    hash,         \* BitHash on the arguments the filter passes it (fixed from __init__ on)
    inserted,     \* history: the keys whose insert has returned
    ret           \* the last call and its outcome

vars == <<phase, n, d, p, N, bloomFilter, setBits, hash, inserted, ret>>

\* ------------------------------------------------------------ helpers

RECURSIVE Pow(_, _)
Pow(b, e) == IF e = 0 THEN 1 ELSE b * Pow(b, e - 1)

Outcome(op, key, exc, flag, num, den) ==
    [op |-> op, key |-> key, exc |-> exc, flag |-> flag, num |-> num, den |-> den]

\* BitHash(key, seed): whatever the hash library returns for (key, seed),
\* the same value on every call.  The filter calls it with seed in 1..d only,
\* so hash holds those values: any function, drawn once the filter exists.
BitHash(key, seed) == hash[<<key, seed>>]

\* ------------------------------------------------------- __bitsNeeded

\* m <= numHashes / (1 - phi ** (1 / numKeys)), phi = 1 - p ** (1 / numHashes),
\* decided exactly.  For 0 < p <= 1 (0 <= phi < 1) and m > numHashes it is
\*   p * m^(numKeys*numHashes) <= (m^numKeys - (m - numHashes)^numKeys)^numHashes,
\* and every m <= numHashes satisfies it; for p > 1 and numKeys = 1
\* (phi < 0, phi ** 1.0 = phi) it is  p * m^numHashes <= numHashes^numHashes.
QuotientAtLeast(m, numKeys, numHashes, maxFalsePositive) ==
    LET pn == maxFalsePositive[1]
        pd == maxFalsePositive[2]
    IN  IF pn <= pd
        THEN \/ m <= numHashes
             \/ pn * Pow(m, numKeys * numHashes)
                  <= pd * Pow(Pow(m, numKeys) - Pow(m - numHashes, numKeys), numHashes)
        ELSE pn * Pow(m, numHashes) <= pd * Pow(numHashes, numHashes)

bitsNeeded(numKeys, numHashes, maxFalsePositive) ==
    IF numHashes = 0
    THEN [exc |-> "ZeroDivisionError", N |-> 0]      \* 1 / numHashes
    ELSE IF numKeys = 0
    THEN [exc |-> "ZeroDivisionError", N |-> 0]      \* 1 / numKeys
    ELSE IF maxFalsePositive[1] = 0
    THEN [exc |-> "ZeroDivisionError", N |-> 0]      \* phi = 1: numHashes / 0.0
    ELSE IF maxFalsePositive[1] > maxFalsePositive[2] /\ numKeys > 1
    THEN [exc |-> "TypeError", N |-> 0]              \* phi < 0: int() of a complex
    ELSE [exc |-> NoExc,
          N |-> CHOOSE m \in 0..MaxBits :
                  /\ QuotientAtLeast(m, numKeys, numHashes, maxFalsePositive)
                  /\ ~QuotientAtLeast(m + 1, numKeys, numHashes, maxFalsePositive)]

\* ----------------------------------------------------------- __init__

Init ==
    /\ phase = "new"
    /\ n = 0
    /\ d = 0
    /\ p = <<0, 1>>
    /\ N = 0
    /\ bloomFilter = [i \in {} |-> 0]
    /\ setBits = 0
    /\ hash = [x \in {} |-> 0]
    /\ inserted = {}
    /\ ret = Outcome("none", 0, NoExc, FALSE, 0, 1)

\* BitVector(size = N): N zero bits; a negative size raises ValueError.
BitVector(size) == [i \in 0..(size - 1) |-> 0]

Construct(numKeys, numHashes, maxFalsePositive) ==
    /\ phase = "new"
    /\ n' = numKeys
    /\ d' = numHashes
    /\ p' = maxFalsePositive
    /\ LET r == bitsNeeded(numKeys, numHashes, maxFalsePositive)
           exc == IF r.exc # NoExc THEN r.exc
                  ELSE IF r.N < 0 THEN "ValueError" ELSE NoExc
       IN  /\ phase' = IF exc = NoExc THEN "operational" ELSE "failed"
           /\ N' = r.N
           /\ bloomFilter' = IF exc = NoExc THEN BitVector(r.N) ELSE bloomFilter
           /\ ret' = Outcome("init", 0, exc, FALSE, 0, 1)
    /\ setBits' = 0
    /\ hash' \in [Keys \X (IF phase' = "operational" THEN 1..numHashes ELSE {})
                  -> 0..(HashRange - 1)]
    /\ UNCHANGED inserted

\* ------------------------------------------------------------- insert

\* An insert pass that sets and counts without testing the bit first.
insertBodyAlwaysCount(key, i, bf, sb) ==
    IF N = 0
    THEN [exc |-> "ZeroDivisionError", bloomFilter |-> bf, setBits |-> sb]
    ELSE LET hashVal == BitHash(key, i + 1) % N
         IN  IF hashVal \notin DOMAIN bf
             THEN [exc |-> "IndexError", bloomFilter |-> bf, setBits |-> sb]
             ELSE [exc |-> NoExc,
                   bloomFilter |-> [bf EXCEPT ![hashVal] = 1],
                   setBits |-> sb + 1]

\* An insert pass that counts a zero bit but leaves it zero.
insertBodyCountOnly(key, i, bf, sb) ==
    IF N = 0
    THEN [exc |-> "ZeroDivisionError", bloomFilter |-> bf, setBits |-> sb]
    ELSE LET hashVal == BitHash(key, i + 1) % N
         IN  IF hashVal \notin DOMAIN bf
             THEN [exc |-> "IndexError", bloomFilter |-> bf, setBits |-> sb]
             ELSE IF bf[hashVal] # 1
             THEN [exc |-> NoExc, bloomFilter |-> bf, setBits |-> sb + 1]
             ELSE [exc |-> NoExc, bloomFilter |-> bf, setBits |-> sb]

\* One pass of insert's loop body for i (0-based): hash, test, set, count.
\* Returns the bit vector and counter it leaves, and the exception raised, if any.
insertBody(key, i, bf, sb) ==
    IF N = 0
    THEN [exc |-> "ZeroDivisionError", bloomFilter |-> bf, setBits |-> sb]   \* % self.__N
    ELSE LET hashVal == BitHash(key, i + 1) % N
         IN  IF hashVal \notin DOMAIN bf
             THEN [exc |-> "IndexError", bloomFilter |-> bf, setBits |-> sb]
             ELSE IF bf[hashVal] # 1
             THEN [exc |-> NoExc,
                   bloomFilter |-> [bf EXCEPT ![hashVal] = 1],
                   setBits |-> sb + 1]
             ELSE [exc |-> NoExc, bloomFilter |-> bf, setBits |-> sb]

\* for i in range(self.__d), from pass i on; an exception ends the loop.
RECURSIVE insertLoop(_, _, _, _)
insertLoop(key, i, bf, sb) ==
    IF i >= d
    THEN [exc |-> NoExc, bloomFilter |-> bf, setBits |-> sb]
    ELSE LET r == insertBody(key, i, bf, sb)
         IN  IF r.exc # NoExc THEN r
             ELSE insertLoop(key, i + 1, r.bloomFilter, r.setBits)

insert(key) == insertLoop(key, 0, bloomFilter, setBits)

\* --------------------------------------------------------------- find

\* for i in range(self.__d), from pass i on: False at the first zero bit.
RECURSIVE findLoop(_, _)
findLoop(key, i) ==
    IF i >= d
    THEN [exc |-> NoExc, flag |-> TRUE]
    ELSE IF N = 0
    THEN [exc |-> "ZeroDivisionError", flag |-> FALSE]       \* % self.__N
    ELSE LET hashVal == BitHash(key, i + 1) % N
         IN  IF hashVal \notin DOMAIN bloomFilter
             THEN [exc |-> "IndexError", flag |-> FALSE]
             ELSE IF bloomFilter[hashVal] = 0
             THEN [exc |-> NoExc, flag |-> FALSE]
             ELSE findLoop(key, i + 1)

\* A find that returns on the last hash's bit alone.
findLastBitOnly(key) ==
    IF d = 0
    THEN [exc |-> NoExc, flag |-> TRUE]
    ELSE IF N = 0
    THEN [exc |-> "ZeroDivisionError", flag |-> FALSE]
    ELSE [exc |-> NoExc, flag |-> bloomFilter[BitHash(key, d) % N] # 0]

find(key) == findLoop(key, 0)

\* -------------------------------------------------- falsePositiveRate

\* A rate projected from the measured proportion of zero bits.
falsePositiveRateMeasured ==
    IF N = 0
    THEN [exc |-> "ZeroDivisionError", num |-> 0, den |-> 1]
    ELSE [exc |-> NoExc, num |-> Pow(setBits, d), den |-> Pow(N, d)]

\* realPhi = (1 - d/N) ** n = (N-d)^n / N^n;  projCurrP = (1 - realPhi) ** d.
falsePositiveRate ==
    IF N = 0
    THEN [exc |-> "ZeroDivisionError", num |-> 0, den |-> 1]  \* self.__d / self.__N
    ELSE LET realPhi == <<Pow(N - d, n), Pow(N, n)>>
         IN  [exc |-> NoExc,
              num |-> Pow(realPhi[2] - realPhi[1], d),
              den |-> Pow(realPhi[2], d)]

numBitsSet == setBits

len == N

\* ------------------------------------------------------------ actions

Insert(key) ==
    /\ phase = "operational"
    /\ LET r == insert(key)
       IN  /\ bloomFilter' = r.bloomFilter
           /\ setBits' = r.setBits
           /\ inserted' = IF r.exc = NoExc THEN inserted \cup {key} ELSE inserted
           /\ ret' = Outcome("insert", key, r.exc, FALSE, 0, 1)
    /\ UNCHANGED <<phase, n, d, p, N, hash>>

\* A find whose loop body kept insert's writes.
FindAndSet(key) ==
    /\ phase = "operational"
    /\ LET r == insert(key)
       IN  /\ bloomFilter' = r.bloomFilter
           /\ setBits' = r.setBits
           /\ ret' = Outcome("find", key, r.exc, TRUE, 0, 1)
    /\ UNCHANGED <<phase, n, d, p, N, hash, inserted>>

Find(key) ==
    /\ phase = "operational"
    /\ LET r == find(key)
       IN  ret' = Outcome("find", key, r.exc, r.flag, 0, 1)
    /\ UNCHANGED <<phase, n, d, p, N, bloomFilter, setBits, hash, inserted>>

FalsePositiveRate ==
    /\ phase = "operational"
    /\ LET r == falsePositiveRate
       IN  ret' = Outcome("falsePositiveRate", 0, r.exc, FALSE, r.num, r.den)
    /\ UNCHANGED <<phase, n, d, p, N, bloomFilter, setBits, hash, inserted>>

NumBitsSet ==
    /\ phase = "operational"
    /\ ret' = Outcome("numBitsSet", 0, NoExc, FALSE, numBitsSet, 1)
    /\ UNCHANGED <<phase, n, d, p, N, bloomFilter, setBits, hash, inserted>>

Len ==
    /\ phase = "operational"
    /\ ret' = Outcome("len", 0, NoExc, FALSE, len, 1)
    /\ UNCHANGED <<phase, n, d, p, N, bloomFilter, setBits, hash, inserted>>

Next ==
    \/ \E numKeys \in NumKeysChoices, numHashes \in NumHashesChoices,
          maxFalsePositive \in PChoices :
          Construct(numKeys, numHashes, maxFalsePositive)
    \/ \E key \in Keys : Insert(key)
    \/ \E key \in Keys : Find(key)
    \/ FalsePositiveRate
    \/ NumBitsSet
    \/ Len

Spec == Init /\ [][Next]_vars
\* ------------------------------------------------------------- claims

Returned(r, b) == r.exc = NoExc /\ r.flag = b

\* The bit at the position derived for key by hash number i (1-based).
BitAt(key, i) == bloomFilter[BitHash(key, i) % N]

SomeBitZero(key) == N > 0 /\ \E i \in 1..d : BitAt(key, i) = 0

AllBitsOne(key) == N > 0 /\ \A i \in 1..d : BitAt(key, i) = 1

OnesCount == Cardinality({i \in DOMAIN bloomFilter : bloomFilter[i] = 1})

\* C1: no false negatives.  Once insert(k) has returned, every one of the d
\* positions BitHash(k, i) % N holds 1 and find(k) returns True, whatever
\* else has been inserted or queried since.
NoFalseNegatives ==
    /\ \A k \in inserted : AllBitsOne(k) /\ Returned(find(k), TRUE)
    /\ (ret.op = "find" /\ ret.key \in inserted) => Returned(ret, TRUE)

\* C1 witness: a find of an inserted key, after every key has been inserted.
NoFalseNegativesWitness ==
    /\ ret.op = "find"
    /\ ret.key \in inserted
    /\ inserted = Keys
    /\ Returned(ret, TRUE)

\* C2: a filter built with numKeys = 0, numHashes = 0 or maxFalsePositive = 1
\* is rejected: no operational filter has such parameters.
ConfigurationRejection ==
    phase = "operational" => ~(n = 0 \/ d = 0 \/ p = <<1, 1>>)

\* C3: an insert(k) right after an insert(k) changes neither the bit array nor
\* numBitsSet() nor the result of find(j) for any key j.
IdempotentInsert ==
    [][(ret.op = "insert" /\ ret'.op = "insert" /\ ret'.key = ret.key)
         => /\ bloomFilter' = bloomFilter
            /\ numBitsSet' = numBitsSet
            /\ \A j \in Keys : find(j)' = find(j)]_vars

\* C3 witness: an insert that set two bits has just returned; the same
\* insert can be repeated from here.
IdempotentInsertWitness ==
    /\ ret.op = "insert"
    /\ ret.exc = NoExc
    /\ inserted = {ret.key}
    /\ numBitsSet = 2

\* C4: numBitsSet() never decreases from one state to the next and never
\* exceeds len(filter).
MonotonicOccupancy ==
    [][/\ numBitsSet <= len
       /\ numBitsSet' <= len'
       /\ numBitsSet' >= numBitsSet]_vars

\* C4 witness: a filter of at least two bits, all of them set.
MonotonicOccupancyWitness ==
    /\ phase = "operational"
    /\ len >= 2
    /\ numBitsSet = len
    /\ ret.op = "insert"

\* C5: on a filter on which no insert has been performed, numBitsSet() is 0
\* and find(k) returns False for every key k.
EmptyFilterQuery ==
    (phase = "operational" /\ inserted = {})
        => /\ numBitsSet = 0
           /\ \A k \in Keys : Returned(find(k), FALSE)

\* C6: find(k) returns False exactly when one of the d positions of k holds 0,
\* True exactly when all d hold 1, and False only for a key never inserted.
FindExact ==
    /\ phase = "operational" =>
         \A k \in Keys :
            /\ Returned(find(k), FALSE) <=> SomeBitZero(k)
            /\ Returned(find(k), TRUE) <=> AllBitsOne(k)
            /\ Returned(find(k), FALSE) => k \notin inserted
    /\ (ret.op = "find" /\ ret.exc = NoExc) =>
            /\ ret.flag <=> AllBitsOne(ret.key)
            /\ ~ret.flag => ret.key \notin inserted

\* C6 witness: find returned False for a key whose first position holds 0
\* while its second holds 1.
FindExactWitness ==
    /\ ret.op = "find"
    /\ Returned(ret, FALSE)
    /\ d = 2
    /\ BitAt(ret.key, 1) = 0
    /\ BitAt(ret.key, 2) = 1

CounterAccuracy ==
    /\ numBitsSet = OnesCount
    /\ ret.op = "numBitsSet" => ret.num = OnesCount

\* C8 witness: numBitsSet() returned 1 after the insert of a key whose two
\* hashes fall on the same position.
CounterAccuracyWitness ==
    /\ ret.op = "numBitsSet"
    /\ ret.num = 1
    /\ d = 2
    /\ len >= 2
    /\ \E k \in inserted : BitHash(k, 1) % N = BitHash(k, 2) % N

\* C9: on a constructed filter N is positive and no insert or find raises.
Totality ==
    phase = "operational"
        => /\ len > 0
           /\ ret.exc = NoExc
           /\ \A k \in Keys : insert(k).exc = NoExc /\ find(k).exc = NoExc

\* C10: find changes neither the bit array nor the counter nor the
\* configuration, insert changes only the bit array and the counter, and
\* len(filter) is the same in every state after construction.
FindReadOnly ==
    [][/\ ret'.op = "find" => UNCHANGED <<bloomFilter, setBits, n, d, p, N>>
       /\ ret'.op = "insert" => UNCHANGED <<n, d, p, N>>
       /\ phase = "operational" => len' = len /\ UNCHANGED <<n, d, p>>]_vars

\* C10 witness: find returned True on a filter with bits set.
FindReadOnlyWitness ==
    /\ ret.op = "find"
    /\ Returned(ret, TRUE)
    /\ numBitsSet > 0
    /\ len > numBitsSet
====
